---- MODULE Spec2Model ----
(***************************************************************************)
(* Model of src/yandex_analyzer.py: the YandexGPTAnalyzer response cache,  *)
(* the remote call with its 429 retry path, and the two fallback results.  *)
(*                                                                         *)
(* Conventions                                                             *)
(*  - the clock `now` counts whole days (datetime.now() in the code);      *)
(*    sleeps are counted in seconds and kept apart from the clock, one     *)
(*    call lasting far less than a day;                                    *)
(*  - a text is a sequence of words; lengths are counted in words;         *)
(*  - floats are kept in tenths (0.5 is 5, 0.6 is 6);                      *)
(*  - a Python dict is a function whose DOMAIN is the set of its keys.     *)
(***************************************************************************)
EXTENDS Integers, Sequences, FiniteSets, TLC

VARIABLES
    exists,         \* a YandexGPTAnalyzer instance has been constructed
    global_set,     \* module-level yandex_analyzer is not None
    api_key,        \* self.api_key is non-empty
    folder_id,      \* self.folder_id is non-empty
    cache,          \* self.cache: key -> [timestamp, data]
    cache_enabled,  \* self.cache_enabled
    request_count,  \* self.request_count
    disk,           \* cache/yandex_gpt_cache.pkl
    now,            \* datetime.now(), in days
    pc,             \* "idle", or "await": a requests.post is in flight
    call,           \* the analyze_news call in progress
    last,           \* the operation that completed last (history)
    other           \* a second instance, in another process, on the same file

vars == <<exists, global_set, api_key, folder_id, cache, cache_enabled,
          request_count, disk, now, pc, call, last, other>>

----------------------------------------------------------------------------
(* Bounds of the model *)

MaxNow == 2
MaxRequests == 4
RecursionLimit == 4
MaxTextLen == 2
MaxPlainCalls == 6

(* Program constants *)

FreshDays == 1
RetentionDays == 7
PauseEvery == 5
RateLimitSleep == 2
DefaultRetries == 2
BackoffBase == 2
BasicSummaryLen == 100
EnhancedSummaryLen == 120

----------------------------------------------------------------------------
(* Inputs *)

TextRost == <<"rost", "rost">>
TextRisk == <<"krizis", "voina">>
Texts == {TextRost, TextRisk}
TestNewsText == <<"rynok", "stabilnost">>
TestNewsTickers == <<"SBER", "GAZP">>
TickerLists == {<<>>, <<"SBER">>}

Min(a, b) == IF a < b THEN a ELSE b

Prefix(s, n) == SubSeq(s, 1, Min(n, Len(s)))

RECURSIVE Pow(_, _)
Pow(b, e) == IF e = 0 THEN 1 ELSE b * Pow(b, e - 1)

----------------------------------------------------------------------------
(* Request fingerprint *)

WordCode(w) ==
    CASE w = "rost" -> 1
      [] w = "krizis" -> 2
      [] w = "voina" -> 3
      [] w = "padenie" -> 4
      [] w = "rynok" -> 5
      [] w = "stabilnost" -> 6
      [] w = "kurs" -> 7
      [] w = "ROSTA" -> 8
      [] OTHER -> 9

\* hashlib.md5(text.encode()).hexdigest(): a digest of the whole content,
\* taken as collision-free (a positional code of the words).
RECURSIVE Md5(_)
Md5(text) == IF text = <<>> THEN 1 ELSE WordCode(Head(text)) + 16 * Md5(Tail(text))

\* hexdigest()[:8]: a prefix of the digest
HashPrefix(text) == Md5(text) % 64

\* variant: the key built from the eight-character prefix of the digest
GetCacheKeyShort(text, analysis_type) == <<analysis_type, HashPrefix(text)>>

\* f"{analysis_type}_{text_hash}": the digest has a fixed length, so the
\* string determines both parts, as the pair does
GetCacheKey(text, analysis_type) == <<analysis_type, Md5(text)>>

----------------------------------------------------------------------------
(* Fallback results *)

positive_words == {"rost", "vyshe", "pribyl", "uspeh", "rekord", "povyshenie"}
negative_words == {"padenie", "nizhe", "ubytok", "krizis", "obval", "snizhenie"}
risk_words == {"voina", "sankcii", "krizis", "defolt", "bankrotstvo"}

\* str.lower(), word by word
Lower(w) == IF w = "ROSTA" THEN "rosta" ELSE w

\* `word in text_lower` is a substring test: the strings found inside a word
Inside(w) == IF w = "rosta" THEN {"rost", "rosta"} ELSE {w}

\* the strings found in text.lower()
Words(text) == UNION {Inside(Lower(text[i])) : i \in 1..Len(text)}

\* sum(1 for word in words if word in text_lower)
CountPresent(words, text) == Cardinality(words \cap Words(text))

AffectedAssets(tickers) == IF tickers # <<>> THEN tickers ELSE <<"RUB">>

CreateBasicFallback(news_text, mentioned_tickers) ==
    [summary |-> <<"basic">> \o Prefix(news_text, BasicSummaryLen),
     sentiment |-> "neutral",
     risk_level |-> "medium",
     affected_assets |-> AffectedAssets(mentioned_tickers),
     market_impact |-> "needs further analysis",
     short_term_action |-> "watch",
     is_fallback |-> TRUE]

\* variant: a tie between the two counts is read as positive
EnhancedSentimentTies(text) ==
    LET p == CountPresent(positive_words, text)
        n == CountPresent(negative_words, text)
    IN  IF p >= n THEN "positive" ELSE "negative"

EnhancedSentiment(text) ==
    LET p == CountPresent(positive_words, text)
        n == CountPresent(negative_words, text)
    IN  IF p > n THEN "positive" ELSE IF n > p THEN "negative" ELSE "neutral"

EnhancedScore(text) ==
    LET s == EnhancedSentiment(text)
    IN  IF s = "positive" THEN 5 ELSE IF s = "negative" THEN -5 ELSE 0

EnhancedRisk(text) ==
    LET r == CountPresent(risk_words, text)
    IN  IF r >= 2 THEN "high" ELSE IF r = 1 THEN "medium" ELSE "low"

EnhancedAction(sentiment) ==
    IF sentiment = "positive" THEN "increase"
    ELSE IF sentiment = "negative" THEN "caution" ELSE "hold"

CreateEnhancedFallback(news_text, mentioned_tickers, t) ==
    [summary |-> <<"keywords">> \o Prefix(news_text, EnhancedSummaryLen),
     detailed_analysis |-> <<CountPresent(positive_words, news_text),
                             CountPresent(negative_words, news_text)>>,
     sentiment |-> EnhancedSentiment(news_text),
     sentiment_score |-> EnhancedScore(news_text),
     risk_level |-> EnhancedRisk(news_text),
     risk_explanation |-> CountPresent(risk_words, news_text),
     affected_assets |-> AffectedAssets(mentioned_tickers),
     market_impact |-> "local",
     short_term_forecast |-> EnhancedSentiment(news_text),
     recommended_actions |-> EnhancedAction(EnhancedSentiment(news_text)),
     key_risks |-> IF EnhancedRisk(news_text) # "low" THEN <<"limited">> ELSE <<>>,
     opportunities |-> <<"deeper analysis">>,
     confidence |-> 6,
     analyzed_at |-> t,
     is_fallback |-> TRUE]

\* the dict analyze_text returns when yandex_analyzer is None
UninitResult ==
    [summary |-> <<"unavailable">>,
     error |-> "not initialised",
     is_fallback |-> TRUE]

----------------------------------------------------------------------------
(* The remote answer and the extraction of its JSON *)

None == [t |-> "none"]

\* the object a well-behaved model returns: every field of the prompt's format
FullObject ==
    [summary |-> <<"remote">>,
     sentiment |-> "positive",
     sentiment_score |-> 7,
     risk_level |-> "low",
     affected_assets |-> <<"SBER">>,
     market_impact |-> "moderate",
     recommended_actions |-> "buy",
     confidence |-> 9]

ObjFull == [t |-> "obj", v |-> FullObject]
ObjSummaryOnly == [t |-> "obj", v |-> [summary |-> <<"remote">>]]
ObjWithFlag == [t |-> "obj", v |-> [summary |-> <<"remote">>, is_fallback |-> TRUE]]
ObjNoSummary == [t |-> "obj", v |-> [sentiment |-> "positive"]]
ObjEmpty == [t |-> "obj", v |-> [f \in {} |-> 0]]
ArrSummary == [t |-> "arr", v |-> <<"summary">>]

\* one candidate substring: did the pattern match, and does json.loads accept it
NoMatch == [match |-> FALSE, parses |-> FALSE, value |-> None]
BadJson == [match |-> TRUE, parses |-> FALSE, value |-> None]
Good(j) == [match |-> TRUE, parses |-> TRUE, value |-> j]

\* the answer text, seen through the three patterns of json_patterns
AiText(a, b, c) == [fenced_json |-> a, fenced |-> b, braces |-> c]

AiTexts ==
    << AiText(Good(ObjFull), NoMatch, Good(ObjFull)),
       AiText(NoMatch, Good(ObjSummaryOnly), Good(ObjSummaryOnly)),
       AiText(NoMatch, NoMatch, Good(ObjWithFlag)),
       AiText(NoMatch, NoMatch, Good(ObjNoSummary)),
       AiText(NoMatch, NoMatch, Good(ObjEmpty)),
       AiText(NoMatch, Good(ArrSummary), NoMatch),
       AiText(NoMatch, NoMatch, BadJson),
       AiText(BadJson, NoMatch, Good(ObjFull)),
       AiText(NoMatch, NoMatch, NoMatch) >>

\* json.loads(json_str) inside the try: a JSONDecodeError ends in `return None`
JsonLoads(c) == IF c.parses THEN c.value ELSE None

ExtractJsonFromResponse(ai) ==
    IF ai.fenced_json.match THEN JsonLoads(ai.fenced_json)
    ELSE IF ai.fenced.match THEN JsonLoads(ai.fenced)
    ELSE IF ai.braces.match THEN JsonLoads(ai.braces)
    ELSE None

\* `if analysis and "summary" in analysis`
Usable(analysis) ==
    /\ analysis.t # "none"
    /\ \/ analysis.t = "obj" /\ DOMAIN analysis.v # {} /\ "summary" \in DOMAIN analysis.v
       \/ analysis.t = "arr" /\ \E i \in 1..Len(analysis.v) : analysis.v[i] = "summary"

\* dict item assignment d[k] = x
SetItem(d, k, x) == [f \in DOMAIN d \cup {k} |-> IF f = k THEN x ELSE d[f]]

\* variant: is_fallback set only when the answer does not carry it
AddMetadataKeepingFlag(obj, news_text, t) ==
    SetItem(SetItem(SetItem(obj, "analyzed_at", t),
                    "text_hash", HashPrefix(news_text)),
            "is_fallback", IF "is_fallback" \in DOMAIN obj THEN obj.is_fallback ELSE FALSE)

\* lines 242-244: the metadata added to a usable answer
AddMetadata(obj, news_text, t) ==
    SetItem(SetItem(SetItem(obj, "analyzed_at", t),
                    "text_hash", HashPrefix(news_text)),
            "is_fallback", FALSE)

NoBody == AiText(NoMatch, NoMatch, NoMatch)

Outcomes ==
    {[kind |-> "http200", ai |-> i] : i \in 1..Len(AiTexts)}
    \cup {[kind |-> k, ai |-> 0] :
            k \in {"http200_malformed", "http429", "http500", "timeout",
                   "connection_error", "other_exception"}}

\* result["result"]["alternatives"][0]["message"]["text"]
AiTextOf(o) == IF o.kind = "http200" THEN AiTexts[o.ai] ELSE NoBody

\* variant: the handlers of lines 270-276 only, without `except Exception`
CatchesNetworkErrorsOnly(exc) == exc \in {"Timeout", "ConnectionError"}

\* the exception classes named by the except clauses of analyze_news
AnalyzeNewsCatches(exc) == exc \in {"Timeout", "ConnectionError", "Exception"}

ExceptionOf(kind) ==
    CASE kind = "timeout" -> "Timeout"
      [] kind = "connection_error" -> "ConnectionError"
      [] OTHER -> "Exception"

----------------------------------------------------------------------------
(* Cache store *)

EmptyCache == [k \in {} |-> None]

Entry(t, d) == [timestamp |-> t, data |-> d]

\* self.cache[key] = value
CachePut(c, k, e) == [x \in DOMAIN c \cup {k} |-> IF x = k THEN e ELSE c[x]]

CacheRemove(c, ks) == [x \in DOMAIN c \ ks |-> c[x]]

\* variant: the retention window used as the freshness window
IsFreshWithinRetention(ts, t) == t - ts < RetentionDays

\* datetime.now() - cached['timestamp'] < timedelta(days=1)
IsFresh(ts, t) == t - ts < FreshDays

\* variant: the comparison with week_ago turned around
IsExpiredReversed(ts, t) == ts > t - RetentionDays

\* self.cache[key]['timestamp'] < week_ago
IsExpired(ts, t) == ts < t - RetentionDays

\* variant: no entry is deleted before the write
PruneNothing(c, t) == c

\* lines 106-109: the entries older than seven days are deleted
PruneOld(c, t) == CacheRemove(c, {k \in DOMAIN c : IsExpired(c[k].timestamp, t)})

AbsentFile == [state |-> "absent", m |-> EmptyCache]
CorruptFile == [state |-> "corrupt", m |-> EmptyCache]
ValidFile(c) == [state |-> "valid", m |-> c]

WriteOutcomes == {"ok", "open_fails", "dump_fails"}

\* the entries of the file d that the mapping c lacks, added to c
MergedWithFile(c, d) ==
    LET m == IF d.state = "valid" THEN d.m ELSE EmptyCache
    IN  [k \in DOMAIN c \cup DOMAIN m |-> IF k \in DOMAIN c THEN c[k] ELSE m[k]]

\* variant: the file is read again and merged into the mapping before the write
SaveCacheMerging(c, enabled, d, t, wr) ==
    IF ~enabled THEN [cache |-> c, disk |-> d, saved |-> "noop", pruned |-> 0]
    ELSE [cache |-> PruneOld(MergedWithFile(c, d), t),
          disk |-> IF wr = "ok" THEN ValidFile(PruneOld(MergedWithFile(c, d), t))
                   ELSE IF wr = "open_fails" THEN d ELSE CorruptFile,
          saved |-> IF wr = "ok" THEN "ok" ELSE "fail",
          pruned |-> Cardinality(DOMAIN c) - Cardinality(DOMAIN PruneOld(c, t))]

\* _save_cache: the new in-memory mapping, the new file, which path ran, and
\* how many entries the pruning loop deleted
SaveCache(c, enabled, d, t, wr) ==
    IF ~enabled THEN [cache |-> c, disk |-> d, saved |-> "noop", pruned |-> 0]
    ELSE [cache |-> PruneOld(c, t),
          disk |-> IF wr = "ok" THEN ValidFile(PruneOld(c, t))
                   ELSE IF wr = "open_fails" THEN d ELSE CorruptFile,
          saved |-> IF wr = "ok" THEN "ok" ELSE "fail",
          pruned |-> Cardinality(DOMAIN c) - Cardinality(DOMAIN PruneOld(c, t))]

\* _load_cache after `self.cache = {}`
LoadCache(d) == IF d.state = "valid" THEN d.m ELSE EmptyCache

\* variant: _load_cache without its try/except
LoadCacheCatchesNothing(exc) == FALSE

\* `except Exception` at line 95, around open and pickle.load
LoadCacheCatches(exc) == exc \in {"Exception"}

\* open or pickle.load raises on a file that cannot be read or deserialized;
\* the exception leaves _load_cache, and __init__, when it is not caught there
LoadCacheRaises(d) == d.state = "corrupt" /\ ~LoadCacheCatches("Exception")

StoredResult(text, t) == AddMetadata(FullObject, text, t)

InitDisks ==
    { AbsentFile,
      CorruptFile,
      ValidFile(CachePut(CachePut(EmptyCache,
                    GetCacheKey(TextRost, "news"), Entry(0, StoredResult(TextRost, 0))),
                    GetCacheKey(TextRisk, "news"), Entry(-8, StoredResult(TextRisk, -8)))),
      ValidFile(CachePut(EmptyCache,
                    GetCacheKey(TextRost, "news"), Entry(-1, StoredResult(TextRost, -1)))) }

\* the second instance: whether it was constructed, and its self.cache
NoInstance == [exists |-> FALSE, cache |-> EmptyCache]

----------------------------------------------------------------------------
(* History records *)

NoResult == [nothing |-> TRUE]

NoCall ==
    [op |-> "none", text |-> <<>>, tickers |-> <<>>, use_cache |-> FALSE,
     api_key |-> FALSE, folder_id |-> FALSE,
     depth |-> 0, attempt |-> 0, calls |-> 0, backoff |-> <<>>, pauses |-> <<>>]

\* what is remembered of a completed operation
Done(op) ==
    [op |-> op, text |-> <<>>, tickers |-> <<>>, use_cache |-> FALSE,
     outcome |-> "return", origin |-> "none", ret |-> NoResult, at |-> now,
     calls |-> 0, backoff |-> <<>>, pauses |-> <<>>, saved |-> "none",
     stored |-> FALSE, hit_age |-> -1, arg |-> 0, pruned |-> 0,
     kind |-> "none", flagged |-> FALSE, type |-> "str", analysis_type |-> "news",
     api_key |-> api_key, folder_id |-> folder_id, enabled |-> cache_enabled]

DoneCall(c, outcome, origin, ret) ==
    [Done(c.op) EXCEPT !.text = c.text, !.tickers = c.tickers,
                       !.use_cache = c.use_cache, !.outcome = outcome,
                       !.api_key = c.api_key, !.folder_id = c.folder_id,
                       !.origin = origin, !.ret = ret, !.calls = c.calls,
                       !.backoff = c.backoff, !.pauses = c.pauses]

----------------------------------------------------------------------------
(* analyze_news *)

\* lines 217-222: the counter, and the pause taken when it reaches a multiple of 5
PauseDue(count) == count % PauseEvery = 0

\* time.sleep(2 ** attempt)
BackoffSleep(attempt) == Pow(BackoffBase, attempt)

\* variant: the counter moved by the first request of a call only, not by
\* the retries
CountFirstPausePost(c, d, attempt, slept, count) ==
    /\ request_count' = IF d = 1 THEN count + 1 ELSE count
    /\ pc' = "await"
    /\ call' = [c EXCEPT !.depth = d, !.attempt = attempt,
                         !.calls = c.calls + 1,
                         !.backoff = IF d = 1 THEN c.backoff ELSE Append(c.backoff, slept),
                         !.pauses = IF PauseDue(count + 1)
                                    THEN Append(c.pauses, count + 1)
                                    ELSE c.pauses]
    /\ UNCHANGED last

\* lines 216-229 of the frame at depth d: count, pause, post
CountPausePost(c, d, attempt, slept, count) ==
    /\ request_count' = count + 1
    /\ pc' = "await"
    /\ call' = [c EXCEPT !.depth = d, !.attempt = attempt,
                         !.calls = c.calls + 1,
                         !.backoff = IF d = 1 THEN c.backoff ELSE Append(c.backoff, slept),
                         !.pauses = IF PauseDue(count + 1)
                                    THEN Append(c.pauses, count + 1)
                                    ELSE c.pauses]
    /\ UNCHANGED last

\* the same lines, for as long as the counter is within the bound of the model
SendRequest(c, d, attempt, slept, count) ==
    /\ count < MaxRequests
    /\ CountPausePost(c, d, attempt, slept, count)

\* a return statement of the outermost frame (inner frames pass the value on)
Return(c, origin, ret) ==
    /\ pc' = "idle"
    /\ call' = NoCall
    /\ last' = DoneCall(c, "return", origin, ret)

\* an exception that leaves the outermost frame
Raise(c) ==
    /\ pc' = "idle"
    /\ call' = NoCall
    /\ last' = DoneCall(c, "raise", "none", NoResult)

\* variant: the credential check left out
NoApiKeyIgnored(key) == FALSE

\* line 136: `if not self.api_key`
NoApiKey(key) == ~key

\* variant: a cache hit counted as a request
EnterCountingHits(op, news_text, mentioned_tickers, use_cache, key, folder, mapping, enabled, count) ==
    LET c == [NoCall EXCEPT !.op = op, !.text = news_text,
                            !.tickers = mentioned_tickers, !.use_cache = use_cache,
                            !.api_key = key, !.folder_id = folder]
        cache_key == GetCacheKey(news_text, "news")
    IN  IF NoApiKey(key)
        THEN /\ Return(c, "basic", CreateBasicFallback(news_text, mentioned_tickers))
             /\ request_count' = count
        ELSE IF /\ use_cache /\ enabled /\ cache_key \in DOMAIN mapping
                /\ IsFresh(mapping[cache_key].timestamp, now)
        THEN /\ pc' = "idle"
             /\ call' = NoCall
             /\ last' = [DoneCall(c, "return", "cache", mapping[cache_key].data)
                           EXCEPT !.hit_age = now - mapping[cache_key].timestamp]
             /\ request_count' = count + 1
        ELSE SendRequest(c, 1, 0, 0, count)

\* lines 130-229 of the outermost frame, run on an instance whose fields are
\* key (api_key), folder (folder_id), mapping (cache), enabled (cache_enabled)
\* and count (request_count)
Enter(op, news_text, mentioned_tickers, use_cache, key, folder, mapping, enabled, count) ==
    LET c == [NoCall EXCEPT !.op = op, !.text = news_text,
                            !.tickers = mentioned_tickers, !.use_cache = use_cache,
                            !.api_key = key, !.folder_id = folder]
        cache_key == GetCacheKey(news_text, "news")
    IN  IF NoApiKey(key)
        THEN /\ Return(c, "basic", CreateBasicFallback(news_text, mentioned_tickers))
             /\ request_count' = count
        ELSE IF /\ use_cache /\ enabled /\ cache_key \in DOMAIN mapping
                /\ IsFresh(mapping[cache_key].timestamp, now)
        THEN /\ pc' = "idle"
             /\ call' = NoCall
             /\ last' = [DoneCall(c, "return", "cache", mapping[cache_key].data)
                           EXCEPT !.hit_age = now - mapping[cache_key].timestamp]
             /\ request_count' = count
        ELSE SendRequest(c, 1, 0, 0, count)

AnalyzeNews(news_text, mentioned_tickers, use_cache) ==
    /\ pc = "idle"
    /\ exists
    /\ Enter("analyze_news", news_text, mentioned_tickers, use_cache,
             api_key, folder_id, cache, cache_enabled, request_count)
    /\ UNCHANGED <<other, exists, global_set, api_key, folder_id, cache, disk,
                   cache_enabled, now>>

\* module-level analyze_text
AnalyzeText(text, tickers) ==
    /\ pc = "idle"
    /\ IF ~global_set
       THEN /\ last' = [Done("analyze_text") EXCEPT !.text = text, !.tickers = tickers,
                            !.use_cache = TRUE, !.origin = "uninit", !.ret = UninitResult]
            /\ UNCHANGED <<pc, call, request_count>>
       ELSE Enter("analyze_text", text, tickers, TRUE,
                  api_key, folder_id, cache, cache_enabled, request_count)
    /\ UNCHANGED <<other, exists, global_set, api_key, folder_id, cache, disk,
                   cache_enabled, now>>

\* variant: the enhanced fallback put into the cache like a remote result
ReturnEnhancedStoring(o) ==
    /\ pc' = "idle"
    /\ call' = NoCall
    /\ last' = [DoneCall(call, "return", "enhanced",
                         CreateEnhancedFallback(call.text, call.tickers, now))
                  EXCEPT !.kind = o.kind]
    /\ cache' = CachePut(cache, GetCacheKey(call.text, "news"),
                         Entry(now, CreateEnhancedFallback(call.text, call.tickers, now)))
    /\ UNCHANGED disk

\* `return self._create_enhanced_fallback(news_text, mentioned_tickers)`,
\* reached after the remote answer o
ReturnEnhanced(o) ==
    /\ pc' = "idle"
    /\ call' = NoCall
    /\ last' = [DoneCall(call, "return", "enhanced",
                         CreateEnhancedFallback(call.text, call.tickers, now))
                  EXCEPT !.kind = o.kind]
    /\ UNCHANGED <<cache, disk>>

\* variant: the result stored whatever use_cache and cache_enabled say
SuccessStoringAlways(obj, use_cache, o) ==
    \E wr \in WriteOutcomes :
        LET result == AddMetadata(obj, call.text, now)
            cache_key == GetCacheKey(call.text, "news")
            storing == TRUE
            s == IF storing
                 THEN SaveCache(CachePut(cache, cache_key, Entry(now, result)),
                                cache_enabled, disk, now, wr)
                 ELSE [cache |-> cache, disk |-> disk, saved |-> "none", pruned |-> 0]
        IN  /\ cache' = s.cache
            /\ disk' = s.disk
            /\ pc' = "idle"
            /\ call' = NoCall
            /\ last' = [DoneCall(call, "return", "remote", result)
                          EXCEPT !.saved = s.saved, !.stored = storing,
                                 !.pruned = s.pruned, !.kind = o.kind,
                                 !.flagged = "is_fallback" \in DOMAIN obj]
            /\ UNCHANGED request_count

\* lines 240-255: a usable answer is stamped, stored when caching applies, returned
Success(obj, use_cache, o) ==
    \E wr \in WriteOutcomes :
        LET result == AddMetadata(obj, call.text, now)
            cache_key == GetCacheKey(call.text, "news")
            storing == use_cache /\ cache_enabled
            s == IF storing
                 THEN SaveCache(CachePut(cache, cache_key, Entry(now, result)),
                                cache_enabled, disk, now, wr)
                 ELSE [cache |-> cache, disk |-> disk, saved |-> "none", pruned |-> 0]
        IN  /\ cache' = s.cache
            /\ disk' = s.disk
            /\ pc' = "idle"
            /\ call' = NoCall
            /\ last' = [DoneCall(call, "return", "remote", result)
                          EXCEPT !.saved = s.saved, !.stored = storing,
                                 !.pruned = s.pruned, !.kind = o.kind,
                                 !.flagged = "is_fallback" \in DOMAIN obj]
            /\ UNCHANGED request_count

\* _analyze_with_retry, lines 285-294, resumed after the call of attempt a - 1
\* at depth d raised: sleep and call again, or leave the loop
RetryLoopNext(d, a, o) ==
    IF a < DefaultRetries
    THEN /\ SendRequest(call, d, a, BackoffSleep(a), request_count)
         /\ UNCHANGED <<cache, disk>>
    ELSE /\ ReturnEnhanced(o)
         /\ UNCHANGED request_count

\* an exception raised inside the try of the frame at depth call.depth
Throw(exc, o) ==
    IF AnalyzeNewsCatches(exc)
    THEN ReturnEnhanced(o) /\ UNCHANGED request_count
    ELSE IF call.depth = 1
         THEN /\ Raise(call)
              /\ UNCHANGED <<cache, disk, request_count>>
         ELSE RetryLoopNext(call.depth, call.attempt + 1, o)

\* lines 260-263 and 285-290: sleep(2), then attempt 0 of _analyze_with_retry
\* sleeps 2 ** 0 and calls analyze_news(use_cache=False) one level deeper.
\* Past the interpreter's recursion limit the call ends in a RecursionError,
\* raised either on entering the frame (caught at line 291 on each attempt)
\* or under requests.post after the counter moved (caught at line 278).
RetryAfter429(o) ==
    IF call.depth + 1 <= RecursionLimit
    THEN /\ SendRequest(call, call.depth + 1, 0,
                        RateLimitSleep + BackoffSleep(0), request_count)
         /\ UNCHANGED <<cache, disk>>
    ELSE \E site \in {"enter", "post"} :
            /\ ReturnEnhanced(o)
            /\ request_count' =
                 IF site = "enter" THEN request_count
                 ELSE IF AnalyzeNewsCatches("Exception") THEN request_count + 1
                 ELSE request_count + DefaultRetries

\* the answer to the request in flight, and lines 231-280 of the frame that sent it
Respond(o) ==
    /\ pc = "await"
    /\ LET analysis == ExtractJsonFromResponse(AiTextOf(o))
       IN  CASE o.kind = "http200" ->
                  IF Usable(analysis)
                  THEN IF analysis.t = "obj"
                       THEN Success(analysis.v, call.depth = 1 /\ call.use_cache, o)
                       ELSE Throw("Exception", o)
                  ELSE ReturnEnhanced(o) /\ UNCHANGED request_count
             [] o.kind = "http429" -> RetryAfter429(o)
             [] o.kind = "http500" -> ReturnEnhanced(o) /\ UNCHANGED request_count
             [] OTHER -> Throw(ExceptionOf(o.kind), o)
    /\ UNCHANGED <<other, exists, global_set, api_key, folder_id, cache_enabled, now>>

----------------------------------------------------------------------------
(* Construction, maintenance, time *)

\* YandexGPTAnalyzer(api_key, folder_id, cloud_id) in a fresh process
Construct(k, f) ==
    /\ pc = "idle"
    /\ global_set' = FALSE
    /\ IF LoadCacheRaises(disk)
       THEN /\ exists' = FALSE
            /\ last' = [Done("construct") EXCEPT !.outcome = "raise"]
            /\ UNCHANGED <<api_key, folder_id, cache, request_count, cache_enabled>>
       ELSE /\ exists' = TRUE
            /\ api_key' = k
            /\ folder_id' = f
            /\ cache' = LoadCache(disk)
            /\ request_count' = 0
            /\ cache_enabled' = TRUE
            /\ last' = [Done("construct") EXCEPT !.api_key = k, !.folder_id = f,
                                                 !.enabled = TRUE]
    /\ UNCHANGED <<other, disk, now, pc, call>>

\* module-level init_analyzer: the check of both credentials, the construction
\* (an exception of which is caught at line 520), and the test request sent
\* through analyze_news
InitAnalyzer(k, f) ==
    /\ pc = "idle"
    /\ IF ~k \/ ~f \/ LoadCacheRaises(disk)
       THEN /\ last' = [Done("init_analyzer") EXCEPT !.outcome = "return", !.arg = 0]
            /\ UNCHANGED <<exists, global_set, api_key, folder_id, cache,
                           cache_enabled, request_count, pc, call>>
       ELSE /\ exists' = TRUE
            /\ global_set' = TRUE
            /\ api_key' = k
            /\ folder_id' = f
            /\ cache' = LoadCache(disk)
            /\ cache_enabled' = TRUE
            /\ Enter("init_analyzer", TestNewsText, TestNewsTickers, TRUE,
                     k, f, LoadCache(disk), TRUE, 0)
    /\ UNCHANGED <<other, disk, now>>

ClearArgs ==
    {[given |-> FALSE, days |-> 0], [given |-> TRUE, days |-> 0],
     [given |-> TRUE, days |-> 1], [given |-> TRUE, days |-> 8]}

\* `if older_than_days:`
Truthy(older) == older.given /\ older.days # 0

ClearedCache(c, older, t) ==
    IF Truthy(older)
    THEN CacheRemove(c, {k \in DOMAIN c : c[k].timestamp < t - older.days})
    ELSE EmptyCache

ClearCache(older) ==
    /\ pc = "idle"
    /\ exists
    /\ \E wr \in WriteOutcomes :
         LET s == SaveCache(ClearedCache(cache, older, now), cache_enabled, disk, now, wr)
         IN  /\ cache' = s.cache
             /\ disk' = s.disk
             /\ last' = [Done("clear_cache") EXCEPT !.saved = s.saved,
                                                    !.pruned = s.pruned,
                                                    !.arg = older.days]
    /\ UNCHANGED <<other, exists, global_set, api_key, folder_id, cache_enabled,
                   request_count, now, pc, call>>

EnableCache(enable) ==
    /\ pc = "idle"
    /\ exists
    /\ cache_enabled' = enable
    /\ last' = [Done("enable_cache") EXCEPT !.enabled = enable]
    /\ UNCHANGED <<other, exists, global_set, api_key, folder_id, cache, disk,
                   request_count, now, pc, call>>

\* a day passes between two operations; `last` then describes no operation of
\* the new day
Tick ==
    /\ pc = "idle"
    /\ now < MaxNow
    /\ now' = now + 1
    /\ last' = [Done("tick") EXCEPT !.at = now + 1]
    /\ UNCHANGED <<other, exists, global_set, api_key, folder_id, cache, cache_enabled,
                   request_count, disk, pc, call>>

----------------------------------------------------------------------------

Init ==
    /\ exists = FALSE
    /\ global_set = FALSE
    /\ api_key = FALSE
    /\ folder_id = FALSE
    /\ cache = EmptyCache
    /\ cache_enabled = TRUE
    /\ request_count = 0
    /\ disk \in InitDisks
    /\ now = 0
    /\ pc = "idle"
    /\ call = NoCall
    /\ last = [Done("none") EXCEPT !.at = 0, !.api_key = FALSE,
                                   !.folder_id = FALSE, !.enabled = TRUE]
    /\ other = NoInstance

\* Calls: every credential setting, every remote answer, the retry path
CallTexts == {TextRost}

Next ==
    \/ \E k \in BOOLEAN, f \in BOOLEAN : Construct(k, f)
    \/ \E k \in BOOLEAN, f \in BOOLEAN : InitAnalyzer(k, f)
    \/ \E t \in CallTexts, tk \in TickerLists, uc \in BOOLEAN : AnalyzeNews(t, tk, uc)
    \/ \E t \in CallTexts, tk \in TickerLists : AnalyzeText(t, tk)
    \/ \E o \in Outcomes : Respond(o)

Spec == Init /\ [][Next]_vars

\* Cache: two texts over several days, with clearing, switching and restarts;
\* the remote either answers with a full object or fails
CacheOutcomes == {[kind |-> "http200", ai |-> 1], [kind |-> "http500", ai |-> 0]}

NextCache ==
    \/ Construct(TRUE, TRUE)
    \/ \E t \in Texts, uc \in BOOLEAN : AnalyzeNews(t, <<>>, uc)
    \/ \E o \in CacheOutcomes : Respond(o)
    \/ \E older \in ClearArgs : ClearCache(older)
    \/ \E enable \in BOOLEAN : EnableCache(enable)
    \/ Tick

SpecCache == Init /\ [][NextCache]_vars

----------------------------------------------------------------------------
(* The fallback functions called on their own, with values of any type *)

PyStr(s) == [type |-> "str", v |-> s]
PyList(items) == [type |-> "list", v |-> items]
PyNone == [type |-> "NoneType", v |-> <<>>]
PyInt == [type |-> "int", v |-> <<>>]

RECURSIVE SeqsUpTo(_, _)
SeqsUpTo(S, n) ==
    IF n = 0 THEN {<<>>}
    ELSE SeqsUpTo(S, n - 1) \cup {Append(q, w) : q \in SeqsUpTo(S, n - 1), w \in S}

Vocabulary == {"rost", "ROSTA", "krizis", "voina", "kurs"}

FallbackValues ==
    {PyStr(q) : q \in SeqsUpTo(Vocabulary, MaxTextLen)}
    \cup {PyNone, PyInt, PyList(<<"rost">>)}

\* news_text[:100] is defined on strings and lists, and raises TypeError on
\* None and on a number
Sliceable(x) == x.type \in {"str", "list"}

\* news_text.lower() is defined on strings, and raises AttributeError otherwise
HasLower(x) == x.type = "str"

Returned(r) == [outcome |-> "return", ret |-> r]
Raised == [outcome |-> "raise", ret |-> NoResult]

BasicFallbackOf(x, mentioned_tickers) ==
    IF Sliceable(x) THEN Returned(CreateBasicFallback(x.v, mentioned_tickers))
    ELSE Raised

EnhancedFallbackOf(x, mentioned_tickers, t) ==
    IF HasLower(x) THEN Returned(CreateEnhancedFallback(x.v, mentioned_tickers, t))
    ELSE Raised

DoneFallback(op, x, mentioned_tickers, res) ==
    [Done(op) EXCEPT !.text = x.v, !.type = x.type, !.tickers = mentioned_tickers,
                     !.outcome = res.outcome, !.ret = res.ret]

\* self._create_basic_fallback(x, mentioned_tickers)
CallBasicFallback(x, mentioned_tickers) ==
    /\ pc = "idle"
    /\ exists
    /\ last' = DoneFallback("create_basic_fallback", x, mentioned_tickers,
                            BasicFallbackOf(x, mentioned_tickers))
    /\ UNCHANGED <<other, exists, global_set, api_key, folder_id, cache, cache_enabled,
                   request_count, disk, now, pc, call>>

\* self._create_enhanced_fallback(x, mentioned_tickers)
CallEnhancedFallback(x, mentioned_tickers) ==
    /\ pc = "idle"
    /\ exists
    /\ last' = DoneFallback("create_enhanced_fallback", x, mentioned_tickers,
                            EnhancedFallbackOf(x, mentioned_tickers, now))
    /\ UNCHANGED <<other, exists, global_set, api_key, folder_id, cache, cache_enabled,
                   request_count, disk, now, pc, call>>

\* a day passes, the last operation still being remembered
Later ==
    /\ pc = "idle"
    /\ now < MaxNow
    /\ now' = now + 1
    /\ UNCHANGED <<other, exists, global_set, api_key, folder_id, cache, cache_enabled,
                   request_count, disk, pc, call, last>>

\* the functions are called on an instance that loaded a cache file with two entries
InitFallback == Init /\ disk.state = "valid" /\ Cardinality(DOMAIN disk.m) = 2

NextFallback ==
    \/ Construct(TRUE, TRUE)
    \/ \E x \in FallbackValues, tk \in TickerLists : CallBasicFallback(x, tk)
    \/ \E x \in FallbackValues, tk \in TickerLists : CallEnhancedFallback(x, tk)
    \/ Later

SpecFallback == InitFallback /\ [][NextFallback]_vars

----------------------------------------------------------------------------
(* _extract_json_from_response called on its own *)

\* what one pattern can find in an answer: nothing, a string json.loads
\* rejects, or a string it accepts as an object or as an array
Candidates == <<NoMatch, BadJson, Good(ObjFull), Good(ObjSummaryOnly), Good(ArrSummary)>>

NumCandidates == Len(Candidates)

\* the answers, numbered: one candidate for each of the three patterns
ExtractTextNumbers == 0..(NumCandidates * NumCandidates * NumCandidates - 1)

ExtractText(n) ==
    AiText(Candidates[(n \div (NumCandidates * NumCandidates)) + 1],
           Candidates[((n \div NumCandidates) % NumCandidates) + 1],
           Candidates[(n % NumCandidates) + 1])

\* self._extract_json_from_response(text) for the answer numbered n
ExtractJson(n) ==
    /\ pc = "idle"
    /\ exists
    /\ last' = [Done("extract_json") EXCEPT !.arg = n,
                                            !.ret = ExtractJsonFromResponse(ExtractText(n))]
    /\ UNCHANGED <<other, exists, global_set, api_key, folder_id, cache, cache_enabled,
                   request_count, disk, now, pc, call>>

NextExtract ==
    \/ Construct(TRUE, TRUE)
    \/ \E n \in ExtractTextNumbers : ExtractJson(n)

SpecExtract == Init /\ [][NextExtract]_vars

----------------------------------------------------------------------------
(* A run of requests that bypass the cache, counted beyond MaxRequests *)

\* analyze_news(news_text, [], use_cache=False) on an instance that has an API
\* key: lines 136 and 141 are passed, the request is counted and posted
AnalyzeNewsUncached(news_text) ==
    /\ pc = "idle"
    /\ exists
    /\ api_key
    /\ request_count < MaxPlainCalls
    /\ CountPausePost([NoCall EXCEPT !.op = "analyze_news", !.text = news_text,
                                     !.api_key = api_key, !.folder_id = folder_id],
                      1, 0, 0, request_count)
    /\ UNCHANGED <<other, exists, global_set, api_key, folder_id, cache, disk,
                   cache_enabled, now>>

\* the remote answers with a full object or with a server error
PlainOutcomes == {[kind |-> "http200", ai |-> 1], [kind |-> "http500", ai |-> 0]}

NextPlain ==
    \/ Construct(TRUE, TRUE)
    \/ \E t \in Texts : AnalyzeNewsUncached(t)
    \/ \E o \in PlainOutcomes : Respond(o)

SpecPlain == Init /\ [][NextPlain]_vars

----------------------------------------------------------------------------
(* _get_cache_key called on its own *)

AnalysisTypes == {"news", "report"}

KeyTexts == SeqsUpTo(Vocabulary, MaxTextLen)

\* self._get_cache_key(text, analysis_type)
CallGetCacheKey(text, analysis_type) ==
    /\ pc = "idle"
    /\ exists
    /\ last' = [Done("get_cache_key") EXCEPT !.text = text,
                                             !.analysis_type = analysis_type,
                                             !.ret = [key |-> GetCacheKey(text, analysis_type)]]
    /\ UNCHANGED <<other, exists, global_set, api_key, folder_id, cache, cache_enabled,
                   request_count, disk, now, pc, call>>

NextKey ==
    \/ \E k \in BOOLEAN : Construct(k, TRUE)
    \/ \E t \in KeyTexts, a \in AnalysisTypes : CallGetCacheKey(t, a)
    \/ Later

SpecKey == Init /\ [][NextKey]_vars

----------------------------------------------------------------------------
(* The request counter under every operation of an instance *)

\* the dict get_statistics returns on an instance with these fields at time t
StatisticsOf(count, mapping, enabled, folder, t) ==
    [total_requests |-> count,
     cache_size |-> Cardinality(DOMAIN mapping),
     cache_enabled |-> enabled,
     folder_id |-> folder,
     last_cache_save |-> t]

GetStatistics ==
    /\ pc = "idle"
    /\ exists
    /\ last' = [Done("get_statistics") EXCEPT
                   !.ret = StatisticsOf(request_count, cache, cache_enabled, folder_id, now)]
    /\ UNCHANGED <<other, exists, global_set, api_key, folder_id, cache, cache_enabled,
                   request_count, disk, now, pc, call>>

\* the remote answers with a full object, a rate limit or a server error
CounterOutcomes ==
    {[kind |-> "http200", ai |-> 1], [kind |-> "http429", ai |-> 0],
     [kind |-> "http500", ai |-> 0]}

NextCounter ==
    \/ \E k \in BOOLEAN : Construct(k, TRUE)
    \/ \E t \in CallTexts, uc \in BOOLEAN : AnalyzeNews(t, <<>>, uc)
    \/ \E t \in CallTexts : AnalyzeNewsUncached(t)
    \/ \E o \in CounterOutcomes : Respond(o)
    \/ \E older \in ClearArgs : ClearCache(older)
    \/ \E enable \in BOOLEAN : EnableCache(enable)
    \/ GetStatistics

SpecCounter == Init /\ [][NextCounter]_vars

----------------------------------------------------------------------------
(* Two instances, each in its own process, on the same cache file *)

\* the entries of the file d, not yet expired at t, that the file d2 written
\* over it does not hold
DroppedByWrite(d, d2, t) ==
    {k \in DOMAIN d.m : ~IsExpired(d.m[k].timestamp, t) /\ k \notin DOMAIN d2.m}

\* YandexGPTAnalyzer(...) in the second process: lines 66-76
OtherConstruct ==
    /\ pc = "idle"
    /\ ~LoadCacheRaises(disk)
    /\ other' = [exists |-> TRUE, cache |-> LoadCache(disk)]
    /\ last' = Done("other_construct")
    /\ UNCHANGED <<exists, global_set, api_key, folder_id, cache, cache_enabled,
                   request_count, disk, now, pc, call>>

\* analyze_news(news_text) of the second instance, from the cache miss to the
\* return of a successful remote call: lines 240-254, with the defaults
\* use_cache=True and cache_enabled=True; `arg` remembers how many live
\* entries the write removed from the file
OtherAnalyzeNews(news_text) ==
    /\ pc = "idle"
    /\ other.exists
    /\ \E wr \in WriteOutcomes :
         LET result == AddMetadata(FullObject, news_text, now)
             s == SaveCache(CachePut(other.cache, GetCacheKey(news_text, "news"),
                                     Entry(now, result)),
                            TRUE, disk, now, wr)
         IN  /\ other' = [other EXCEPT !.cache = s.cache]
             /\ disk' = s.disk
             /\ last' = [Done("other_analyze_news") EXCEPT
                            !.text = news_text, !.use_cache = TRUE,
                            !.origin = "remote", !.ret = result,
                            !.saved = s.saved, !.stored = TRUE,
                            !.pruned = s.pruned, !.kind = "http200",
                            !.arg = IF s.saved = "ok"
                                    THEN Cardinality(DroppedByWrite(disk, s.disk, now))
                                    ELSE 0]
    /\ UNCHANGED <<exists, global_set, api_key, folder_id, cache, cache_enabled,
                   request_count, now, pc, call>>

NextTwo ==
    \/ Construct(TRUE, TRUE)
    \/ \E t \in Texts : AnalyzeNews(t, <<>>, TRUE)
    \/ \E o \in CacheOutcomes : Respond(o)
    \/ OtherConstruct
    \/ \E t \in Texts : OtherAnalyzeNews(t)

SpecTwo == Init /\ [][NextTwo]_vars

----------------------------------------------------------------------------
(* Properties *)

AnalysisOps == {"analyze_news", "analyze_text", "init_analyzer"}

\* the last operation was an analysis request that went through analyze_news
AnalyzeNewsEnded == last.op \in AnalysisOps /\ (last.origin # "none" \/ last.outcome = "raise")
                    /\ last.origin # "uninit"

\* how far the call in progress is from the recursion limit and from the end
\* of the retry loop it is in
Rank == call.depth * DefaultRetries + call.attempt

\* C1: analyze_news never raises and always returns a result: whatever the
\* text, the tickers, the cache and the remote answer, every answer either
\* ends the call or moves it one step towards the bounded end of its retries,
\* and a call that ended has returned a result dict, not raised.
C1_NeverRaises ==
    /\ [](AnalyzeNewsEnded => last.outcome = "return" /\ "summary" \in DOMAIN last.ret)
    /\ [](pc = "await" => Rank < (RecursionLimit + 1) * DefaultRetries)
    /\ [][pc = "await" => (pc' = "idle" \/ Rank' > Rank)]_vars

\* a call answered by a malformed 200 body has ended in a returned result
C1_Witness ==
    /\ AnalyzeNewsEnded
    /\ last.kind = "http200_malformed"
    /\ last.outcome = "return"

\* C2: for one top-level analyze_news call the remote is called at most
\* 1 + 2 times, the call then giving up with the enhanced fallback.
C2_RetryBudget ==
    /\ call.calls <= 1 + DefaultRetries
    /\ last.calls <= 1 + DefaultRetries

\* C3: under consecutive 429 answers the wait before the first retry is at
\* least the base delay and the wait before the second retry is twice the wait
\* before the first; after the second failed retry the call ends.
C3_BackoffDoubles ==
    \A b \in {call.backoff, last.backoff} :
        /\ Len(b) >= 1 => b[1] >= BackoffSleep(0)
        /\ Len(b) >= 2 => b[2] = BackoffBase * b[1]
        /\ Len(b) <= DefaultRetries

\* both credentials of section 6 are configured
CredentialsConfigured == last.api_key /\ last.folder_id

\* the remote call of the last request failed
RemoteFailed ==
    \/ last.kind \in {"timeout", "connection_error", "http500", "http429",
                      "http200_malformed", "other_exception"}
    \/ last.kind = "http200" /\ last.origin # "remote"

\* C7: the minimal fallback is returned exactly when the credentials are not
\* configured; with credentials every remote failure gives the enhanced
\* fallback; one request gives one tier.
C7_TierSelection ==
    AnalyzeNewsEnded =>
        /\ (last.origin = "basic") <=> ~CredentialsConfigured
        /\ (CredentialsConfigured /\ RemoteFailed) => last.origin = "enhanced"

\* C8: with the API key or the folder identifier absent every request returns
\* the minimal fallback and no remote call is made.
C8_MissingCredentials ==
    /\ (pc = "await") => (api_key /\ folder_id)
    /\ (AnalyzeNewsEnded /\ ~CredentialsConfigured) =>
            (last.origin = "basic" /\ last.calls = 0)

ResultFields ==
    {"summary", "sentiment", "sentiment_score", "risk_level", "affected_assets",
     "market_impact", "confidence", "analyzed_at", "is_fallback"}

\* the recommended action, under either of the names the results use
HasAction(r) == "recommended_actions" \in DOMAIN r \/ "short_term_action" \in DOMAIN r

\* C9: every result analyze_news returns carries all ten fields of the record.
C9_FullyPopulated ==
    (AnalyzeNewsEnded /\ last.outcome = "return") =>
        (ResultFields \subseteq DOMAIN last.ret /\ HasAction(last.ret))

\* C10: is_fallback is false on the results of a successful remote call,
\* returned directly or from the cache, and true on every other result.
C10_IsFallback ==
    (last.op \in AnalysisOps /\ last.origin # "none") =>
        /\ "is_fallback" \in DOMAIN last.ret
        /\ last.ret.is_fallback <=> last.origin \notin {"remote", "cache"}

\* a usable answer that carried is_fallback itself has been returned
C10_Witness ==
    /\ last.op \in AnalysisOps
    /\ last.origin = "remote"
    /\ last.flagged

----------------------------------------------------------------------------
(* Properties of the cache *)

\* this step is a call analyze_news(t, _, use_cache=True) made from idle
CachedCallOf(t) ==
    /\ pc = "idle"
    /\ \/ pc' = "await" /\ call'.op = "analyze_news" /\ call'.text = t /\ call'.use_cache
       \/ /\ pc' = "idle" /\ last' # last /\ last'.op = "analyze_news"
          /\ last'.text = t /\ last'.use_cache

\* C4: with credentials and caching enabled, the call analyze_news(t) that
\* directly follows a call which stored the result r of a successful remote
\* call under the key of t returns r unchanged, from the cache.
C4_RoundTrip ==
    [][(/\ last.op = "analyze_news" /\ last.stored /\ last.at = now
        /\ api_key /\ cache_enabled
        /\ CachedCallOf(last.text))
       => (pc' = "idle" /\ last'.origin = "cache" /\ last'.ret = last.ret)]_vars

\* a result stored today by a remote call has been served from the cache
C4_Witness ==
    /\ last.op = "analyze_news"
    /\ last.origin = "cache"
    /\ now > 0
    /\ last.ret.analyzed_at = now

\* this step is a cache hit of analyze_news on the entry of key k
ReturnsCached(k) ==
    /\ pc = "idle" /\ pc' = "idle" /\ last' # last
    /\ last'.op = "analyze_news" /\ last'.origin = "cache"
    /\ GetCacheKey(last'.text, "news") = k

\* this step is the entry of analyze_news (lines 130-229)
AnalyzeNewsEntry ==
    /\ pc = "idle"
    /\ \/ pc' = "await"
       \/ pc' = "idle" /\ last' # last /\ last'.op = "analyze_news"

\* C5: an entry older than one day is never returned by the cache read of
\* analyze_news, the read leaves the mapping as it is, and the entry stays in
\* the mapping of the instance until a flush prunes it for being older than
\* seven days, a put overwrites it or clear_cache runs.
C5_Freshness ==
    [][\A k \in DOMAIN cache :
          (now - cache[k].timestamp > FreshDays) =>
              /\ ~ReturnsCached(k)
              /\ AnalyzeNewsEntry => cache' = cache
              /\ \/ k \in DOMAIN cache' /\ cache'[k] = cache[k]
                 \/ last'.stored /\ GetCacheKey(last'.text, "news") = k
                 \/ last'.op = "clear_cache"
                 \/ last'.op = "construct"
                 \/ /\ last'.saved \in {"ok", "fail"}
                    /\ IsExpired(cache[k].timestamp, now)]_vars

\* a request for a text whose entry is older than a day is on its way to the remote
C5_Witness ==
    /\ pc = "await"
    /\ call.use_cache
    /\ cache_enabled
    /\ GetCacheKey(call.text, "news") \in DOMAIN cache
    /\ now - cache[GetCacheKey(call.text, "news")].timestamp > FreshDays

NoOldEntry(c) == \A k \in DOMAIN c : ~(now - c[k].timestamp > RetentionDays)

\* the last operation called _save_cache
SaveCacheCalled == last.saved \in {"noop", "ok", "fail"}

\* C6 as stated: after every _save_cache, whatever triggered it and whatever
\* the cache-enabled setting, no entry older than seven days remains in the
\* mapping or in the persisted file.
C6_RetentionAlways ==
    SaveCacheCalled => (NoOldEntry(cache) /\ NoOldEntry(disk.m))

\* C6 amended: after a _save_cache that ran with caching enabled no entry older
\* than seven days remains in the mapping, and after one whose write succeeded
\* the persisted file holds that mapping, so none remains there either.
C6_Retention ==
    /\ last.saved \in {"ok", "fail"} => NoOldEntry(cache)
    /\ last.saved = "ok" => (disk = ValidFile(cache) /\ NoOldEntry(disk.m))

\* a flush has deleted an entry and written the file
C6_Witness ==
    /\ last.saved = "ok"
    /\ last.pruned > 0

----------------------------------------------------------------------------
(* Properties of the remote path and of the maintenance operations *)

\* the key of the text of the last request
LastKey == GetCacheKey(last.text, "news")

\* C11: when a request made with use_cache and caching enabled has returned
\* the result of a successful remote call, on the first request or on a retry
\* after a 429, the cache holds that result under the key of the text with
\* the current timestamp.
C11_SuccessStored ==
    (/\ pc = "idle" /\ last.op \in AnalysisOps /\ last.origin = "remote"
     /\ last.use_cache /\ last.enabled /\ last.at = now) =>
        /\ LastKey \in DOMAIN cache
        /\ cache[LastKey] = Entry(now, last.ret)

\* C13: a cache file that cannot be read or deserialized does not stop the
\* construction: the constructor returns an instance, and its cache mapping
\* is empty.
C13_LoadFailsSoft ==
    (pc = "idle" /\ last.op = "construct" /\ disk.state = "corrupt") =>
        /\ last.outcome = "return"
        /\ exists
        /\ cache = EmptyCache

\* on a later day an instance has been constructed over an unreadable file
C13_Witness ==
    /\ last.op = "construct"
    /\ last.outcome = "return"
    /\ disk.state = "corrupt"
    /\ cache = EmptyCache
    /\ now > 0

\* what clear_cache(older) is to leave of the mapping c at time t: the entries
\* whose age is at most the duration, or nothing when no duration is given
KeptByClear(c, older, t) ==
    IF older.given
    THEN CacheRemove(c, {k \in DOMAIN c : t - c[k].timestamp > older.days})
    ELSE EmptyCache

\* C14: clear_cache called with a duration of d days, d = 0 included, removes
\* exactly the entries older than d days and keeps every other entry; called
\* without a duration it removes all entries.
C14_ClearSemantics ==
    [][\A older \in ClearArgs :
          ClearCache(older) => cache' = KeptByClear(cache, older, now)]_vars

\* C15: after every clear_cache call, with or without a duration and
\* whatever the cache-enabled setting, the file has been rewritten and holds
\* the in-memory mapping (a write that the file system refuses is set aside).
C15_ClearFlushes ==
    (pc = "idle" /\ last.op = "clear_cache" /\ last.saved # "fail") =>
        /\ last.saved = "ok"
        /\ disk = ValidFile(cache)

----------------------------------------------------------------------------
(* Properties of the fallback functions *)

FallbackOps == {"create_basic_fallback", "create_enhanced_fallback"}

\* C12: whatever the input, the empty string and a value that is not a text
\* included, both fallback functions return without raising, and the result
\* carries every field of the record with is_fallback true.
C12_FallbackTotal ==
    last.op \in FallbackOps =>
        /\ last.outcome = "return"
        /\ ResultFields \subseteq DOMAIN last.ret
        /\ HasAction(last.ret)
        /\ last.ret.is_fallback

\* the number of places in the text where a word of the list occurs
Occurrences(words, text) ==
    Cardinality({i \in 1..Len(text) : Inside(Lower(text[i])) \cap words # {}})

\* the last operation was _create_enhanced_fallback on a text, and it returned
EnhancedReturned ==
    /\ last.op = "create_enhanced_fallback"
    /\ last.type = "str"
    /\ last.outcome = "return"

\* C18: the risk level of the enhanced fallback follows the number of
\* occurrences of risk words in the text: two or more give high, one gives
\* medium, none gives low; one risk word occurring twice counts as two.
C18_RiskByOccurrences ==
    EnhancedReturned =>
        LET r == Occurrences(risk_words, last.text)
        IN  last.ret.risk_level =
                IF r >= 2 THEN "high" ELSE IF r = 1 THEN "medium" ELSE "low"

\* the words of the list that are counted in the text: those found in it,
\* in any letter case and inside longer words
Counted(words, text) ==
    Cardinality({w \in words : \E i \in 1..Len(text) : w \in Inside(Lower(text[i]))})

\* C19: the enhanced fallback is positive with score 0.5 exactly when more
\* positive than negative list words are counted in the text, negative with
\* score -0.5 exactly when more negative ones are, neutral with score 0
\* otherwise; is_fallback is true and confidence 0.6 on every text; and two
\* results of the same sentiment carry the same recommended action.
C19_SentimentRule ==
    /\ [](EnhancedReturned =>
            LET p == Counted(positive_words, last.text)
                n == Counted(negative_words, last.text)
                r == last.ret
            IN  /\ r.sentiment = (IF p > n THEN "positive"
                                  ELSE IF n > p THEN "negative" ELSE "neutral")
                /\ r.sentiment_score = (IF p > n THEN 5 ELSE IF n > p THEN -5 ELSE 0)
                /\ r.is_fallback
                /\ r.confidence = 6)
    /\ [][(EnhancedReturned /\ EnhancedReturned'
           /\ last.ret.sentiment = last'.ret.sentiment)
          => last'.ret.recommended_actions = last.ret.recommended_actions]_vars

\* a text with one positive and one negative word has been rated neutral
C19_Witness ==
    /\ EnhancedReturned
    /\ last.ret.detailed_analysis = <<1, 1>>
    /\ last.ret.sentiment = "neutral"

\* this step is a call of one of the two fallback functions
FallbackCalled == last'.op \in FallbackOps /\ now' = now

\* the call of this step repeats the previous operation: same function, same
\* text, same tickers
SameInvocation ==
    /\ last.op = last'.op
    /\ last.type = last'.type
    /\ last.text = last'.text
    /\ last.tickers = last'.tickers
    /\ last.outcome = "return"
    /\ last'.outcome = "return"

\* C20: both fallback functions are pure functions of (text, tickers): a call
\* leaves the cache, the cache file and the request counter as they are, and
\* a call that repeats the previous one, at whatever later time, returns a
\* result equal to the previous one in every field.
C20_FallbacksPure ==
    [][FallbackCalled =>
          /\ UNCHANGED <<cache, disk, request_count>>
          /\ SameInvocation => last'.ret = last.ret]_vars

----------------------------------------------------------------------------
(* Properties of the JSON extraction *)

\* the three candidates of an answer, in the order of json_patterns
CandidatesOf(ai) == <<ai.fenced_json, ai.fenced, ai.braces>>

\* the positions of the candidates that json.loads accepts
Parsing(ai) == {i \in 1..3 : CandidatesOf(ai)[i].match /\ CandidatesOf(ai)[i].parses}

\* C16: the three candidates are tried in order and the first that parses
\* wins: when at least one of them parses the extraction returns the parse of
\* the earliest such candidate, and it returns None only when none parses.
C16_FirstParseWins ==
    last.op = "extract_json" =>
        LET ai == ExtractText(last.arg)
            ok == Parsing(ai)
        IN  IF ok = {} THEN last.ret = None
            ELSE /\ last.ret # None
                 /\ last.ret = CandidatesOf(ai)[CHOOSE i \in ok : \A j \in ok : i <= j].value

----------------------------------------------------------------------------
(* Properties of the rate limit *)

\* the numbers, in the count of the instance, of the requests the call in
\* progress has sent
SentNumbers == (request_count - call.calls + 1)..request_count

\* the request numbers before which the call in progress paused
PausedBefore == {call.pauses[i] : i \in 1..Len(call.pauses)}

\* C17: a pause is taken after every 5 remote calls of an instance, before
\* the next one: before the calls numbered 6, 11, 16, ... and before no other.
C17_PauseAfterFive ==
    pc = "await" =>
        PausedBefore = {n \in SentNumbers : n > 1 /\ n % PauseEvery = 1}

----------------------------------------------------------------------------
(* Properties of the cache key *)

----------------------------------------------------------------------------
(* Properties of the cache within analyze_news *)

\* C22: when the write of the cache file fails while analyze_news stores the
\* result of a successful remote call, no exception reaches the caller and
\* the call returns the enhanced fallback.
C22_WriteFailureFallsBack ==
    (pc = "idle" /\ last.op \in AnalysisOps /\ last.stored /\ last.saved = "fail") =>
        /\ last.outcome = "return"
        /\ last.origin = "enhanced"
        /\ last.ret.is_fallback

----------------------------------------------------------------------------
(* Properties of the request counter *)

\* this step constructs a new instance, whose counter starts at 0
IsConstruct == \E k \in BOOLEAN, f \in BOOLEAN : Construct(k, f)

\* the steps of the counter: it never decreases on an instance, every request
\* sent (first request or retry) moves it by exactly one, and an operation
\* that ends without leaving the idle state (cache hit, minimal fallback,
\* clear_cache, enable_cache, get_statistics) leaves it as it is
CounterSteps ==
    /\ ~IsConstruct => request_count' >= request_count
    /\ pc' = "await" => request_count' = request_count + 1
    /\ (pc = "idle" /\ pc' = "idle" /\ ~IsConstruct) => request_count' = request_count

\* the pauses of the call in progress are those its request numbers call for
PausesFollowCounter ==
    pc = "await" => PausedBefore = {n \in SentNumbers : PauseDue(n)}

\* the result of an analysis is given by where it came from, the text, the
\* tickers, the time and the remote answer; the counter has no part in it
ResultWithoutCounter ==
    (pc = "idle" /\ AnalyzeNewsEnded /\ last.outcome = "return") =>
        CASE last.origin = "basic" ->
                last.ret = CreateBasicFallback(last.text, last.tickers)
          [] last.origin = "enhanced" ->
                last.ret = CreateEnhancedFallback(last.text, last.tickers, last.at)
          [] last.origin = "cache" ->
                last.ret = cache[LastKey].data
          [] OTHER ->
                \E i \in 1..Len(AiTexts) :
                    /\ Usable(ExtractJsonFromResponse(AiTexts[i]))
                    /\ last.ret = AddMetadata(ExtractJsonFromResponse(AiTexts[i]).v,
                                              last.text, last.at)

\* the counter values an instance of the model can show
CounterValues == 0..(MaxRequests + MaxPlainCalls)

\* C23 as stated: the counter never decreases, moves by one with each remote
\* call, retries included, is left alone by cache hits, minimal fallbacks,
\* clear_cache and enable_cache, and influences nothing but the pause: no
\* result of any operation changes with its value.
C23_CounterOnlyDrivesPause ==
    /\ [][CounterSteps]_vars
    /\ [](PausesFollowCounter /\ ResultWithoutCounter)
    /\ []((pc = "idle" /\ last.op = "get_statistics") =>
            \A n \in CounterValues :
                last.ret = StatisticsOf(n, cache, cache_enabled, folder_id, now))

\* C23 amended: as above, the counter influencing the pause and the
\* total_requests figure of get_statistics, and nothing else.
C23_CounterDrivesPauseAndStatistics ==
    /\ [][CounterSteps]_vars
    /\ [](PausesFollowCounter /\ ResultWithoutCounter)
    /\ []((pc = "idle" /\ last.op = "get_statistics") =>
            /\ last.ret.total_requests = request_count
            /\ \A n \in CounterValues :
                  [last.ret EXCEPT !.total_requests = n] =
                      StatisticsOf(n, cache, cache_enabled, folder_id, now))

\* a call that was retried after a 429 has ended with the counter at four or more
C23_Witness ==
    /\ pc = "idle"
    /\ last.op = "analyze_news"
    /\ last.calls >= 2
    /\ request_count >= 4

\* every entry of the mapping c is the stamped result of a successful remote
\* call, stored when it was obtained
RemoteResultsOnly(c) ==
    \A k \in DOMAIN c :
        /\ "summary" \in DOMAIN c[k].data
        /\ "text_hash" \in DOMAIN c[k].data
        /\ ~c[k].data.is_fallback
        /\ c[k].data.analyzed_at = c[k].timestamp

\* C24: fallback results are never cached: whatever analyze_news, clear_cache
\* and enable_cache calls were made, every entry of the cache mapping and of
\* the persisted file holds the result of a successful remote call, with
\* is_fallback false.
C24_NoFallbackCached ==
    /\ RemoteResultsOnly(cache)
    /\ disk.state = "valid" => RemoteResultsOnly(disk.m)

\* a call made with caching in force has returned the enhanced fallback, and
\* the cache, which holds other entries, has none for its text
C24_Witness ==
    /\ pc = "idle"
    /\ last.op = "analyze_news"
    /\ last.origin = "enhanced"
    /\ last.use_cache
    /\ last.enabled
    /\ DOMAIN cache # {}
    /\ LastKey \notin DOMAIN cache

----------------------------------------------------------------------------
(* Properties of two writers *)

\* the last operation was a store of the second instance whose write succeeded
OtherFlushed == last.op = "other_analyze_news" /\ last.saved = "ok"

\* this step is a store of the second instance whose write succeeded
OtherStores == (\E t \in Texts : OtherAnalyzeNews(t)) /\ last'.saved = "ok"

\* this step is a store of the first instance whose write succeeded
FirstStores == pc = "await" /\ pc' = "idle" /\ last'.stored /\ last'.saved = "ok"

\* C25: the last writer wins: a flush writes the mapping of the instance that
\* flushes and nothing else, so an entry of the file that this instance does
\* not hold, stored there by the other one, is gone from the file after the
\* flush; nothing merges the two, and the lost update is reachable.
C25_LastWriterWins ==
    [][/\ OtherStores =>
            /\ disk' = ValidFile(other'.cache)
            /\ \A k \in DOMAIN disk.m :
                  (k \notin DOMAIN other.cache /\ k # GetCacheKey(last'.text, "news"))
                     => k \notin DOMAIN disk'.m
       /\ FirstStores =>
            /\ disk' = ValidFile(cache')
            /\ \A k \in DOMAIN disk.m :
                  (k \notin DOMAIN cache /\ k # GetCacheKey(last'.text, "news"))
                     => k \notin DOMAIN disk'.m]_vars

\* the lost update: the first instance holds an entry it stored today, the
\* second instance never had it, and the second's write has just removed a
\* live entry from the file, which now lacks that entry
C25_Witness ==
    /\ OtherFlushed
    /\ last.arg > 0
    /\ exists
    /\ \E k \in DOMAIN cache :
          /\ cache[k].timestamp = now
          /\ k \notin DOMAIN other.cache
          /\ k \notin DOMAIN disk.m
    /\ LastKey \in DOMAIN disk.m

----------------------------------------------------------------------------
(* Properties of the cache read *)

\* the key of the text of the call in progress
CallKey == GetCacheKey(call.text, "news")

\* this step ends the call in progress after its remote call failed
RemoteFails == pc = "await" /\ pc' = "idle" /\ last'.kind \notin {"http200", "none"}

\* C26: when the cache holds for the text an entry older than one day and the
\* remote call fails, analyze_news returns the enhanced fallback, not the
\* stale entry, and the entry stays in the mapping with its value and its
\* timestamp.
C26_StaleNotServed ==
    [][(/\ RemoteFails
        /\ CallKey \in DOMAIN cache
        /\ now - cache[CallKey].timestamp > FreshDays)
       => /\ last'.outcome = "return"
          /\ last'.origin = "enhanced"
          /\ last'.ret = CreateEnhancedFallback(call.text, call.tickers, now)
          /\ last'.ret # cache[CallKey].data
          /\ CallKey \in DOMAIN cache'
          /\ cache'[CallKey] = cache[CallKey]]_vars

\* a call made with the cache in force, for a text whose entry is older than
\* a day, has ended in the enhanced fallback after the remote failed
C26_Witness ==
    /\ pc = "idle"
    /\ last.op = "analyze_news"
    /\ last.use_cache
    /\ last.enabled
    /\ last.kind = "http500"
    /\ last.origin = "enhanced"
    /\ LastKey \in DOMAIN cache
    /\ now - cache[LastKey].timestamp > FreshDays

\* this step answers a call from the cache
CacheHit ==
    /\ pc = "idle"
    /\ last' # last
    /\ last'.op \in AnalysisOps
    /\ last'.origin = "cache"

\* C27: a call answered from a cache entry younger than one day issues no
\* remote call, leaves request_count alone, takes no pause, and leaves the
\* mapping (the entry's timestamp included) and the file as they were.
C27_HitHasNoEffect ==
    [][CacheHit
       => /\ pc' = "idle"
          /\ call' = NoCall
          /\ last'.hit_age < FreshDays
          /\ last'.calls = 0
          /\ last'.pauses = <<>>
          /\ last'.backoff = <<>>
          /\ request_count' = request_count
          /\ cache' = cache
          /\ disk' = disk
          /\ last'.ret = cache[GetCacheKey(last'.text, "news")].data]_vars

\* a call has been answered from the cache after earlier requests were counted
C27_Witness ==
    /\ pc = "idle"
    /\ last.op = "analyze_news"
    /\ last.origin = "cache"
    /\ request_count > 0
    /\ disk.state = "valid"

\* caching does not apply to a call made with use_cache u
CachingOff(u) == ~u \/ ~cache_enabled

\* this step belongs to a call of analyze_news to which caching does not apply:
\* its answer from the remote, its entry up to the request, or all of it
StepOfUncachedCall ==
    \/ pc = "await" /\ call.op \in {"analyze_news", "analyze_text"}
                    /\ CachingOff(call.use_cache)
    \/ pc = "idle" /\ pc' = "await" /\ call'.op \in {"analyze_news", "analyze_text"}
                   /\ CachingOff(call'.use_cache)
    \/ pc = "idle" /\ pc' = "idle" /\ last' # last
                   /\ last'.op \in {"analyze_news", "analyze_text"}
                   /\ last'.origin # "uninit"
                   /\ CachingOff(last'.use_cache)

\* C28: with cache_enabled False or use_cache False, analyze_news does not
\* answer from the cache, sends a request whenever an API key is configured,
\* and leaves the mapping and the file as they were, entries older than seven
\* days included.
C28_OffMeansUntouched ==
    [][StepOfUncachedCall
       => /\ cache' = cache
          /\ disk' = disk
          /\ cache_enabled' = cache_enabled
          /\ (pc' = "idle" => /\ last'.origin # "cache"
                              /\ last'.stored = FALSE
                              /\ last'.saved = "none"
                              /\ last'.pruned = 0
                              /\ (last'.api_key => last'.calls >= 1))]_vars

\* a call to which caching did not apply got a usable remote answer while the
\* mapping held a fresh entry for its text and an entry older than seven days
C28_Witness ==
    /\ pc = "idle"
    /\ last.op = "analyze_news"
    /\ last.origin = "remote"
    /\ CachingOff(last.use_cache)
    /\ LastKey \in DOMAIN cache
    /\ IsFresh(cache[LastKey].timestamp, now)
    /\ \E k \in DOMAIN cache : IsExpired(cache[k].timestamp, now)

\* this step is a call of analyze_news on an instance without an API key
CallWithoutKey ==
    /\ pc = "idle"
    /\ ~api_key
    /\ \/ pc' = "await" /\ call'.op \in {"analyze_news", "analyze_text"}
       \/ /\ last' # last
          /\ last'.op \in {"analyze_news", "analyze_text"}
          /\ last'.origin # "uninit"

\* C29: without an API key analyze_news returns the minimal fallback, also when
\* the cache holds a fresh entry for the text; it sends no request and leaves
\* the mapping, the file and request_count as they were.
C29_KeyCheckFirst ==
    [][CallWithoutKey
       => /\ pc' = "idle"
          /\ last'.outcome = "return"
          /\ last'.origin = "basic"
          /\ last'.ret = CreateBasicFallback(last'.text, last'.tickers)
          /\ last'.calls = 0
          /\ last'.pauses = <<>>
          /\ request_count' = request_count
          /\ cache' = cache
          /\ disk' = disk]_vars

\* a call with the cache in force got the minimal fallback while the mapping
\* held a fresh entry for its text
C29_Witness ==
    /\ pc = "idle"
    /\ last.op = "analyze_news"
    /\ last.origin = "basic"
    /\ last.use_cache
    /\ cache_enabled
    /\ ~api_key
    /\ LastKey \in DOMAIN cache
    /\ IsFresh(cache[LastKey].timestamp, now)

----------------------------------------------------------------------------
(* Properties of the flush *)

\* this step ran _save_cache with caching enabled
Flushed == last' # last /\ last'.saved \in {"ok", "fail"}

\* what holds of the mapping after a flush whose write failed: nothing older
\* than seven days is left in it, and the entry just put is in it
PrunedAndKept ==
    /\ \A k \in DOMAIN cache' : now - cache'[k].timestamp <= RetentionDays
    /\ last'.stored =>
         /\ GetCacheKey(last'.text, "news") \in DOMAIN cache'
         /\ cache'[GetCacheKey(last'.text, "news")] = Entry(now, last'.ret)

\* C30: with caching enabled, after a _save_cache whose write succeeded the
\* file holds the mapping that is in memory; after one whose write failed the
\* mapping in memory is pruned and holds the new entry, and the file holds
\* what it held before.
C30_MemoryAndDiskConsistent ==
    [][Flushed
       => /\ last'.saved = "ok" => (disk'.state = "valid" /\ disk'.m = cache')
          /\ last'.saved = "fail" => (PrunedAndKept /\ disk' = disk)]_vars

====
